---------------------------- MODULE Spec2Model ----------------------------
(***************************************************************************)
(* Smart smoker streaming pipeline: bbq_producer.py publishes the rows of  *)
(* a CSV file on three RabbitMQ queues; consumer_smoker.py,                *)
(* consumer_food_a.py and consumer_food_b.py each keep a deque of recent   *)
(* temperatures and raise alerts.                                          *)
(*                                                                         *)
(* Text (str / bytes) is a sequence of one-character strings.              *)
(* Temperatures (Python floats) are integers counting tenths of a degree;  *)
(* every input has fraction .0 or .5, which binary floats hold exactly, so *)
(* the subtractions and comparisons of the code are exact on them.         *)
(***************************************************************************)
EXTENDS Integers, Sequences, FiniteSets, TLC

VARIABLES
    profile,     \* which input family the run draws its input from
    file,        \* rows the csv reader has yielded so far
    row,         \* the row the producer is handling
    ppc,         \* producer position in process_csv_and_send_messages / main
    connection,  \* the producer's broker connection: "none", "open", "closed"
    sleeps,      \* the durations of the time.sleep calls made so far
    plog,        \* producer log entries: level, queue, body
    attempts,    \* per queue: bodies handed to basic_publish
    published,   \* per queue: bodies the broker accepted
    queue,       \* per queue: messages not yet acknowledged, oldest first
    dpc,         \* per detector: position in its callback, or "stopped"
    window,      \* per detector: temperature_readings
    curTs,       \* per detector: timestamp of the message being handled
    inserted,    \* per detector: temperatures appended by the current process
    evaluated,   \* per detector: insertions whose evaluate/evict step has run
    alertAt,     \* per detector: insertions k at which an alert was raised
    dispatched,  \* per detector: calls of create_and_send_text_alert made by
                 \* the current process: insertion k, text, message pending
    dlog,        \* per detector: log entries of the callback in progress
    acked,       \* per detector: bodies acknowledged with basic_ack
    stopReason,  \* per detector: why the process stopped
    restarts,    \* per detector: restarts so far
    kills        \* terminations from outside so far

vars == <<profile, file, row, ppc, connection, sleeps, plog, attempts, published, queue,
          dpc, window, curTs, inserted, evaluated, alertAt, dispatched, dlog,
          acked, stopReason, restarts, kills>>

producerVars == <<file, row, ppc, connection, sleeps, plog, attempts>>
detectorVars == <<dpc, window, curTs, inserted, evaluated, alertAt,
                  dispatched, dlog, acked, stopReason, restarts, kills>>

--------------------------------------------------------------------------
(* Bounds of the model *)

MaxSmokerRows == 6
MaxFoodRows == 22
MaxMixedRows == 1
EarlyRows == 2
MaxBacklog == 1
MaxRestarts == 1
MaxKills == 1

--------------------------------------------------------------------------
(* Program constants *)

SMOKER_DEQUE_MAX_LENGTH == 5
TEMPERATURE_DROP_THRESHOLD == 15
FOOD_A_DEQUE_MAX_LENGTH == 20
FOOD_A_TEMPERATURE_CHANGE_THRESHOLD == 1
FOOD_B_DEQUE_MAX_LENGTH == 20
FOOD_B_TEMPERATURE_CHANGE_THRESHOLD == 1
DELAY == 30

QUEUE_NAMES == <<"01-smoker", "02-food-A", "03-food-B">>
Queues == {QUEUE_NAMES[i] : i \in 1..Len(QUEUE_NAMES)}
Detectors == {"smoker", "foodA", "foodB"}

(* QUEUE_NAME of each consumer script *)
QUEUE_NAME(d) ==
    CASE d = "smoker" -> "01-smoker"
      [] d = "foodA" -> "02-food-A"
      [] d = "foodB" -> "03-food-B"

DEQUE_MAX_LENGTH(d) ==
    CASE d = "smoker" -> SMOKER_DEQUE_MAX_LENGTH
      [] d = "foodA" -> FOOD_A_DEQUE_MAX_LENGTH
      [] d = "foodB" -> FOOD_B_DEQUE_MAX_LENGTH

--------------------------------------------------------------------------
(* Text and floats *)

Digits == <<"0", "1", "2", "3", "4", "5", "6", "7", "8", "9">>
IsDigit(c) == \E i \in 1..10 : Digits[i] = c
DigitVal(c) == (CHOOSE i \in 1..10 : Digits[i] = c) - 1

AllDigits(s) == \A i \in 1..Len(s) : IsDigit(s[i])

RECURSIVE NatVal(_)
NatVal(s) ==
    IF s = <<>> THEN 0
    ELSE 10 * NatVal(SubSeq(s, 1, Len(s) - 1)) + DigitVal(s[Len(s)])

RECURSIVE FormatNat(_)
FormatNat(n) ==
    IF n < 10 THEN <<Digits[n + 1]>>
    ELSE FormatNat(n \div 10) \o <<Digits[(n % 10) + 1]>>

(* float: a temperature is counted in tenths of a degree *)
Tenths == 10

DotAt(s) == {i \in 1..Len(s) : s[i] = "."}

(* float(s) succeeds: digits, optionally followed by a point and at most   *)
(* one fractional digit (the inputs of the model carry no more).           *)
FloatOk(s) ==
    \/ Len(s) >= 1 /\ AllDigits(s)
    \/ /\ Cardinality(DotAt(s)) = 1
       /\ LET p == CHOOSE i \in DotAt(s) : TRUE
          IN  /\ p >= 2
              /\ Len(s) - p <= 1
              /\ AllDigits(SubSeq(s, 1, p - 1))
              /\ AllDigits(SubSeq(s, p + 1, Len(s)))

(* float(s), in tenths *)
FloatVal(s) ==
    IF DotAt(s) = {} THEN Tenths * NatVal(s)
    ELSE LET p == CHOOSE i \in DotAt(s) : TRUE
         IN  Tenths * NatVal(SubSeq(s, 1, p - 1))
               + NatVal(SubSeq(s, p + 1, Len(s)))

(* str(x) of a float x: always shows a fractional part, 225 -> "225.0" *)
FormatFloat(x) ==
    FormatNat(x \div Tenths) \o <<".">> \o FormatNat(x % Tenths)

(* s.split(', ') *)
RECURSIVE SplitFrom(_, _, _)
SplitFrom(s, i, start) ==
    IF i > Len(s) - 1 THEN <<SubSeq(s, start, Len(s))>>
    ELSE IF s[i] = "," /\ s[i + 1] = " "
         THEN <<SubSeq(s, start, i - 1)>> \o SplitFrom(s, i + 2, i + 2)
         ELSE SplitFrom(s, i + 1, start)

Split(s) == SplitFrom(s, 1, 1)


IsPrefix(p, s) == Len(p) <= Len(s) /\ SubSeq(s, 1, Len(p)) = p
IsSuffix(p, s) == Len(p) <= Len(s) /\ SubSeq(s, Len(s) - Len(p) + 1, Len(s)) = p

--------------------------------------------------------------------------
(* Inputs: the rows csv.DictReader yields *)

Profiles ==
    {"smoker", "foodA", "foodB", "json", "mixed", "rising", "jsonRising", "late"}

(* The profiles in which another publisher, not bbq_producer.py, sends *)
JsonProfiles == {"json", "jsonRising"}

(* Time (UTC) of the i-th row: distinct per row *)
TimeOf(i) == <<"t">> \o FormatNat(i)

Row(i, c1, c2, c3) ==
    ("Time (UTC)" :> TimeOf(i)) @@ ("Channel1" :> c1) @@ ("Channel2" :> c2)
        @@ ("Channel3" :> c3)

NoRow == Row(0, <<>>, <<>>, <<>>)

SmokerTexts == {<<"2", "2", "5">>, <<"2", "1", "0">>, <<"2", "1", "0", ".", "5">>}
FoodBase == <<"1", "5", "0", ".", "5">>
FoodOutliers == {<<"1", "5", "0">>, <<"1", "5", "1", ".", "5">>}
NotNumeric == <<"a", "b", "c">>

(* The food temperature of the i-th reading: any of the three values among *)
(* the first EarlyRows readings and from the reading that fills the window *)
(* on, the base value in between.                                          *)
FoodTexts(i) ==
    IF i <= EarlyRows \/ i >= FOOD_B_DEQUE_MAX_LENGTH
    THEN {FoodBase} \cup FoodOutliers
    ELSE {FoodBase}

(* A strictly increasing series: reading i is 100 + i degrees, or half a   *)
(* degree more where FoodTexts leaves a choice.                            *)
RisingTexts(i) ==
    IF i <= EarlyRows \/ i >= FOOD_B_DEQUE_MAX_LENGTH
    THEN {FormatNat(100 + i), FormatNat(100 + i) \o <<".", "5">>}
    ELSE {FormatNat(100 + i)}

JsonTexts(i) == IF profile = "json" THEN FoodTexts(i) ELSE RisingTexts(i)

MaxRows ==
    CASE profile = "smoker" -> MaxSmokerRows
      [] profile \in {"mixed", "late"} -> MaxMixedRows
      [] OTHER -> MaxFoodRows

RowSet ==
    LET i == Len(file) + 1
    IN  CASE profile = "smoker" ->
               {Row(i, t, <<>>, <<>>) : t \in SmokerTexts}
          [] profile = "foodA" ->
               {Row(i, <<>>, t, <<>>) :
                    t \in IF FoodTexts(i) = {FoodBase} THEN {FoodBase}
                          ELSE {FoodBase, <<>>}}
          [] profile = "foodB" ->
               {Row(i, <<>>, <<>>, t) : t \in FoodTexts(i)}
          [] profile = "mixed" ->
               {Row(i, a, b, c) : a \in {<<>>, <<"2", "2", "5">>},
                                  b \in {<<>>, <<"1", "5", "0", ".", "5">>, NotNumeric},
                                  c \in {<<>>, FoodBase}}
          [] profile = "rising" ->
               {Row(i, t, <<>>, t) : t \in RisingTexts(i)}
          [] profile = "late" ->
               {Row(i, <<"2", "2", "5">>, <<>>, FoodBase)}
          [] OTHER -> {}

--------------------------------------------------------------------------
(* Broker *)

DetectorOf(q) == CHOOSE d \in Detectors : QUEUE_NAME(d) = q

(* Messages waiting for a running detector *)
Waiting(q) == IF dpc[DetectorOf(q)] = "stopped" THEN 0 ELSE Len(queue[q])

Outstanding == Waiting("01-smoker") + Waiting("02-food-A") + Waiting("03-food-B")

(* The model lets the running detectors fall at most MaxBacklog messages   *)
(* behind the publishers; the queue of a stopped detector grows freely.    *)
CanPublish(q) == Outstanding < MaxBacklog \/ dpc[DetectorOf(q)] = "stopped"

(* basic_publish either hands the body to the broker or raises; the model  *)
(* lets it raise for the readings of the first EarlyRows rows of the       *)
(* profiles whose broker connection is flaky.                              *)
FlakyBroker == profile \in {"foodA", "mixed"}

PublishOutcomes ==
    IF FlakyBroker /\ Len(file) <= EarlyRows THEN {"ok", "raise"} ELSE {"ok"}

--------------------------------------------------------------------------
(* bbq_producer.py *)

LogEntry(level, q, body) == [level |-> level, queue |-> q, body |-> body]

(* Mutant: an accepted message is published a second time *)
send_message_twice(q, message, outcome) ==
    /\ attempts' = [attempts EXCEPT ![q] = Append(@, message)]
    /\ IF outcome = "ok"
       THEN /\ published' = [published EXCEPT ![q] = Append(Append(@, message), message)]
            /\ queue' = [queue EXCEPT ![q] = Append(Append(@, message), message)]
            /\ plog' = Append(plog, LogEntry("info", q, message))
       ELSE /\ plog' = Append(plog, LogEntry("error", q, message))
            /\ UNCHANGED <<published, queue>>

(* Mutant: a publish that raises is logged and tried once more *)
send_message_retry(q, message, outcome) ==
    IF outcome = "ok"
    THEN /\ attempts' = [attempts EXCEPT ![q] = Append(@, message)]
         /\ published' = [published EXCEPT ![q] = Append(@, message)]
         /\ queue' = [queue EXCEPT ![q] = Append(@, message)]
         /\ plog' = Append(plog, LogEntry("info", q, message))
    ELSE /\ attempts' = [attempts EXCEPT ![q] = Append(Append(@, message), message)]
         /\ published' = [published EXCEPT ![q] = Append(@, message)]
         /\ queue' = [queue EXCEPT ![q] = Append(@, message)]
         /\ plog' = Append(plog, LogEntry("error", q, message))

(* send_message(channel, queue_name, message) *)
send_message(q, message, outcome) ==
    /\ attempts' = [attempts EXCEPT ![q] = Append(@, message)]
    /\ IF outcome = "ok"
       THEN /\ published' = [published EXCEPT ![q] = Append(@, message)]
            /\ queue' = [queue EXCEPT ![q] = Append(@, message)]
            /\ plog' = Append(plog, LogEntry("info", q, message))
       ELSE /\ plog' = Append(plog, LogEntry("error", q, message))
            /\ UNCHANGED <<published, queue>>

(* f"{timestamp}, {temp}" *)
Payload(timestamp, temp) == timestamp \o <<",", " ">> \o FormatFloat(temp)

(* Mutant: a field that is not numeric is logged and skipped *)
SendFieldSkipBad(column, q, next) ==
    LET str == row[column]
    IN  IF str = <<>>
        THEN /\ ppc' = next
             /\ UNCHANGED <<attempts, published, queue, plog, connection>>
        ELSE IF ~FloatOk(str)
        THEN /\ ppc' = next
             /\ plog' = Append(plog, LogEntry("error", "csv", str))
             /\ UNCHANGED <<attempts, published, queue, connection>>
        ELSE /\ CanPublish(q)
             /\ \E outcome \in PublishOutcomes :
                    send_message(q, Payload(row["Time (UTC)"], FloatVal(str)), outcome)
             /\ ppc' = next
             /\ UNCHANGED connection

(* Mutant: the `if <field>:` guard is missing, so float('') raises *)
SendFieldNoGuard(column, q, next) ==
    LET str == row[column]
    IN  IF ~FloatOk(str)
        THEN /\ ppc' = "exit1"
             /\ plog' = Append(plog, LogEntry("error", "csv", str))
             /\ connection' = "closed"
             /\ UNCHANGED <<attempts, published, queue>>
        ELSE /\ CanPublish(q)
             /\ \E outcome \in PublishOutcomes :
                    send_message(q, Payload(row["Time (UTC)"], FloatVal(str)), outcome)
             /\ ppc' = next
             /\ UNCHANGED connection

(* One `if <field>: float(...); send_message(...)` block of the loop body *)
SendField(column, q, next) ==
    LET str == row[column]
    IN  IF str = <<>>
        THEN /\ ppc' = next
             /\ UNCHANGED <<attempts, published, queue, plog, connection>>
        ELSE IF ~FloatOk(str)
        THEN \* ValueError: logged, then sys.exit(1); main closes the connection
             /\ ppc' = "exit1"
             /\ plog' = Append(plog, LogEntry("error", "csv", str))
             /\ connection' = "closed"
             /\ UNCHANGED <<attempts, published, queue>>
        ELSE /\ CanPublish(q)
             /\ \E outcome \in PublishOutcomes :
                    send_message(q, Payload(row["Time (UTC)"], FloatVal(str)), outcome)
             /\ ppc' = next
             /\ UNCHANGED connection

(* connect_and_setup_queues, run while the detectors are subscribed:       *)
(* queue_delete removes each queue with its messages and the broker        *)
(* cancels the consumers of a deleted queue; start_consuming returns once  *)
(* its channel has no consumer left and the detector's main ends. The      *)
(* queues declared anew are empty and have no consumer.                    *)
connect_and_setup_queues ==
    /\ ppc = "setup"
    /\ queue' = [q \in Queues |-> <<>>]
    /\ dpc' = [d \in Detectors |-> "stopped"]
    /\ stopReason' = [d \in Detectors |->
                        IF dpc[d] = "stopped" THEN stopReason[d] ELSE "cancelled"]
    /\ ppc' = "next"
    /\ connection' = "open"
    /\ UNCHANGED <<profile, file, row, sleeps, plog, attempts, published>>
    /\ UNCHANGED <<window, curTs, inserted, evaluated, alertAt, dispatched, dlog,
                   acked, restarts, kills>>

ReadRow ==
    /\ ppc = "next"
    /\ Len(file) < MaxRows
    /\ \E r \in RowSet : row' = r /\ file' = Append(file, r)
    /\ ppc' = "smoker"
    /\ UNCHANGED <<profile, connection, sleeps, plog, attempts, published, queue>>
    /\ UNCHANGED detectorVars

SendSmoker ==
    /\ ppc = "smoker"
    /\ SendField("Channel1", "01-smoker", "foodA")
    /\ UNCHANGED <<profile, file, row, sleeps>>
    /\ UNCHANGED detectorVars

SendFoodA ==
    /\ ppc = "foodA"
    /\ SendField("Channel2", "02-food-A", "foodB")
    /\ UNCHANGED <<profile, file, row, sleeps>>
    /\ UNCHANGED detectorVars

SendFoodB ==
    /\ ppc = "foodB"
    /\ SendField("Channel3", "03-food-B", "sleep")
    /\ UNCHANGED <<profile, file, row, sleeps>>
    /\ UNCHANGED detectorVars

(* Mutant: the producer suspends twice after a row *)
SleepTwice ==
    /\ ppc = "sleep"
    /\ sleeps' = Append(Append(sleeps, DELAY), DELAY)
    /\ ppc' = "next"
    /\ UNCHANGED <<profile, file, row, connection, plog, attempts, published, queue>>
    /\ UNCHANGED detectorVars

Sleep ==
    /\ ppc = "sleep"
    /\ sleeps' = Append(sleeps, DELAY)
    /\ ppc' = "next"
    /\ UNCHANGED <<profile, file, row, connection, plog, attempts, published, queue>>
    /\ UNCHANGED detectorVars

(* open(filename) raises FileNotFoundError: logged, sys.exit(1); the        *)
(* `finally` of main closes the connection                                 *)
FileNotFound ==
    /\ ppc = "next"
    /\ profile \notin JsonProfiles
    /\ file = <<>>
    /\ plog' = Append(plog, LogEntry("error", "file", <<>>))
    /\ ppc' = "nofile"
    /\ connection' = "closed"
    /\ UNCHANGED <<profile, file, row, sleeps, attempts, published, queue>>
    /\ UNCHANGED detectorVars

(* Reading the next row raises something else (a row without one of the   *)
(* columns: KeyError; bytes that are not UTF-8): logged, sys.exit(1); the  *)
(* `finally` of main closes the connection. The model lets it happen up to *)
(* the row after the first EarlyRows rows.                                 *)
UnexpectedError ==
    /\ ppc = "next"
    /\ profile \notin JsonProfiles
    /\ Len(file) <= EarlyRows
    /\ plog' = Append(plog, LogEntry("error", "unexpected", <<>>))
    /\ ppc' = "failed"
    /\ connection' = "closed"
    /\ UNCHANGED <<profile, file, row, sleeps, attempts, published, queue>>
    /\ UNCHANGED detectorVars

(* Mutant: the loop ends and the connection is left open *)
EndOfFileLeavesOpen ==
    /\ ppc = "next"
    /\ profile \notin JsonProfiles
    /\ ppc' = "closed"
    /\ UNCHANGED <<profile, file, row, connection, sleeps, plog, attempts,
                   published, queue>>
    /\ UNCHANGED detectorVars

(* The reader is exhausted: the loop ends and main closes the connection *)
EndOfFile ==
    /\ ppc = "next"
    /\ profile \notin JsonProfiles
    /\ ppc' = "closed"
    /\ connection' = "closed"
    /\ UNCHANGED <<profile, file, row, sleeps, plog, attempts, published, queue>>
    /\ UNCHANGED detectorVars

--------------------------------------------------------------------------
(* collections.deque(maxlen=...) *)

(* temperature_readings.append(x): a full deque drops its leftmost entry *)
DequeAppend(w, x, maxlen) ==
    IF Len(w) = maxlen THEN Append(Tail(w), x) ELSE Append(w, x)

(* Mutant: the whole window is dropped once it was full *)
PopLeftClears(w) == <<>>

(* Mutant: the oldest entry is never evicted *)
PopLeftKeeps(w) == w

(* temperature_readings.popleft() *)
PopLeft(w) == Tail(w)

Max(w) == CHOOSE x \in {w[i] : i \in 1..Len(w)} : \A j \in 1..Len(w) : w[j] <= x
Min(w) == CHOOSE x \in {w[i] : i \in 1..Len(w)} : \A j \in 1..Len(w) : x <= w[j]

--------------------------------------------------------------------------
(* json.loads on the bodies of the model: an object with one member whose  *)
(* value is a number, a bare number, or text that is not JSON.             *)

QuoteAt(s) == {i \in 1..Len(s) : s[i] = "\""}

(* A JSON number: as float() reads it, and with no leading zero *)
JsonNumberOk(s) ==
    /\ FloatOk(s)
    /\ DotAt(s) # {} => s[Len(s)] # "."
    /\ s[1] = "0" => (Len(s) = 1 \/ s[2] = ".")

JsonLoads(body) ==
    IF /\ Len(body) >= 7
       /\ body[1] = "{" /\ body[2] = "\"" /\ body[Len(body)] = "}"
       /\ Cardinality(QuoteAt(body)) = 2
    THEN LET q == CHOOSE i \in QuoteAt(body) : i > 2
         IN  IF /\ q + 3 <= Len(body) - 1
                /\ body[q + 1] = ":" /\ body[q + 2] = " "
                /\ JsonNumberOk(SubSeq(body, q + 3, Len(body) - 1))
             THEN [kind |-> "object", key |-> SubSeq(body, 3, q - 1),
                   value |-> FloatVal(SubSeq(body, q + 3, Len(body) - 1))]
             ELSE [kind |-> "error"]
    ELSE IF JsonNumberOk(body) THEN [kind |-> "number", value |-> FloatVal(body)]
    ELSE [kind |-> "error"]

KeyTemperature == <<"t", "e", "m", "p", "e", "r", "a", "t", "u", "r", "e">>

(* The body a JSON publisher sends for one temperature text *)
JsonBody(t) == <<"{", "\"">> \o KeyTemperature \o <<"\"", ":", " ">> \o t \o <<"}">>

--------------------------------------------------------------------------
(* create_and_send_text_alert (consumer_smoker.py, consumer_food_b.py) *)

(* What the SMTP session can do:                                           *)
(*   sent           every call succeeds                                    *)
(*   auth_error     login raises SMTPAuthenticationError                   *)
(*   send_error     starttls, login or send_message raises, quit works     *)
(*   disconnected   the server drops the session: send_message raises and  *)
(*                  so does quit                                           *)
(*   connect_error  smtplib.SMTP(host, port) raises: `server` is unbound   *)
(* and, before the session is opened:                                      *)
(*   no_secrets     load_secrets() raises: .env.toml or one of its keys is *)
(*                  missing                                                *)
DispatchOutcomes ==
    {"sent", "auth_error", "send_error", "disconnected", "connect_error",
     "no_secrets"}

Log(level, text) == [level |-> level, text |-> text]

(* The log entries the call leaves, and whether an exception escapes it:   *)
(* `finally: server.quit()` runs on every path, and raises when `server`   *)
(* is unbound (UnboundLocalError) or the session is gone.                  *)
create_and_send_text_alert(text_message, outcome) ==
    CASE outcome = "sent" ->
           [log |-> <<Log("info", <<"Text alert sent successfully.">>)>>,
            raised |-> FALSE]
      [] outcome = "auth_error" ->
           [log |-> <<Log("error", <<"Authentication error. Verify your email and password.">>)>>,
            raised |-> FALSE]
      [] outcome = "send_error" ->
           [log |-> <<Log("error", <<"Error: ">>)>>, raised |-> FALSE]
      [] outcome = "disconnected" ->
           [log |-> <<Log("error", <<"Error: ">>)>>, raised |-> TRUE]
      [] outcome = "connect_error" ->
           [log |-> <<Log("error", <<"Error: ">>)>>, raised |-> TRUE]
      [] outcome = "no_secrets" ->
           [log |-> <<>>, raised |-> TRUE]

--------------------------------------------------------------------------
(* The consumers. pika runs one callback at a time; the message handled is *)
(* the oldest unacknowledged one of the queue.                             *)

Delivered(d) == Head(queue[QUEUE_NAME(d)])

(* An exception escapes the callback: start_consuming re-raises it and the *)
(* process ends; the message was not acknowledged.                         *)
Raise(d, reason) ==
    /\ dpc' = [dpc EXCEPT ![d] = "stopped"]
    /\ stopReason' = [stopReason EXCEPT ![d] = reason]

(* message.split(', ') unpacked into two names, then float() *)
DecodeOk(body) == Len(Split(body)) = 2 /\ FloatOk(Split(body)[2])

(* Lines 61-67 of smoker_callback, 60-66 of food_b_callback *)
DecodeAndAppend(d) ==
    /\ dpc[d] = "idle"
    /\ queue[QUEUE_NAME(d)] # <<>>
    /\ LET body == Delivered(d)
       IN  IF ~DecodeOk(body)
           THEN /\ Raise(d, "decode")
                /\ dlog' = [dlog EXCEPT ![d] = <<>>]
                /\ UNCHANGED <<window, curTs, inserted>>
           ELSE LET timestamp == Split(body)[1]
                    temperature == FloatVal(Split(body)[2])
                IN  /\ dlog' = [dlog EXCEPT ![d] =
                                  <<Log("info", <<"Received temperature: ">>
                                                  \o FormatFloat(temperature))>>]
                    /\ window' = [window EXCEPT ![d] =
                                    DequeAppend(@, temperature, DEQUE_MAX_LENGTH(d))]
                    /\ inserted' = [inserted EXCEPT ![d] = Append(@, temperature)]
                    /\ curTs' = [curTs EXCEPT ![d] = timestamp]
                    /\ dpc' = [dpc EXCEPT ![d] = "appended"]
                    /\ UNCHANGED stopReason
    /\ UNCHANGED <<evaluated, alertAt, dispatched, acked, restarts, kills>>
    /\ UNCHANGED <<profile, published, queue>>
    /\ UNCHANGED producerVars

(* logger.warning(alert_message); create_and_send_text_alert(alert_message); *)
(* temperature_readings.popleft()                                           *)
AlertAndEvict(d, alert_message) ==
    LET k == Len(inserted[d])
    IN  /\ alertAt' = [alertAt EXCEPT ![d] = @ \cup {k}]
        /\ dispatched' = [dispatched EXCEPT ![d] =
                            Append(@, [k |-> k, text |-> alert_message,
                                       pending |-> Delivered(d)])]
        /\ \E outcome \in DispatchOutcomes :
              LET r == create_and_send_text_alert(alert_message, outcome)
              IN  /\ dlog' = [dlog EXCEPT ![d] =
                                @ \o <<Log("warning", alert_message)>> \o r.log]
                  /\ IF r.raised
                     THEN Raise(d, outcome) /\ UNCHANGED window
                     ELSE /\ window' = [window EXCEPT ![d] = PopLeft(@)]
                          /\ dpc' = [dpc EXCEPT ![d] = "evaluated"]
                          /\ UNCHANGED stopReason

NoAlertEvict(d) ==
    /\ window' = [window EXCEPT ![d] = PopLeft(@)]
    /\ dpc' = [dpc EXCEPT ![d] = "evaluated"]
    /\ UNCHANGED <<alertAt, dispatched, dlog, stopReason>>

NotFull(d) ==
    /\ dpc' = [dpc EXCEPT ![d] = "evaluated"]
    /\ UNCHANGED <<window, alertAt, dispatched, dlog, stopReason>>

(* Mutant: the message is acknowledged on delivery, as with auto_ack=True *)
AckOnDelivery(d) ==
    /\ dpc[d] = "idle"
    /\ queue[QUEUE_NAME(d)] # <<>>
    /\ acked' = [acked EXCEPT ![d] = Append(@, Delivered(d))]
    /\ queue' = [queue EXCEPT ![QUEUE_NAME(d)] = Tail(@)]
    /\ UNCHANGED <<dpc, window, curTs, inserted, evaluated, alertAt, dispatched,
                   dlog, stopReason, restarts, kills>>
    /\ UNCHANGED <<profile, published>>
    /\ UNCHANGED producerVars

(* Mutant: the message is acknowledged as soon as it is decoded *)
AckEarly(d) ==
    /\ dpc[d] \in {"appended", "evaluated"}
    /\ acked' = [acked EXCEPT ![d] = Append(@, Delivered(d))]
    /\ queue' = [queue EXCEPT ![QUEUE_NAME(d)] = Tail(@)]
    /\ dpc' = [dpc EXCEPT ![d] = "idle"]
    /\ UNCHANGED <<window, curTs, inserted, evaluated, alertAt, dispatched, dlog,
                   stopReason, restarts, kills>>
    /\ UNCHANGED <<profile, published>>
    /\ UNCHANGED producerVars

(* ch.basic_ack(delivery_tag=method.delivery_tag) *)
Ack(d) ==
    /\ dpc[d] = "evaluated"
    /\ acked' = [acked EXCEPT ![d] = Append(@, Delivered(d))]
    /\ queue' = [queue EXCEPT ![QUEUE_NAME(d)] = Tail(@)]
    /\ dpc' = [dpc EXCEPT ![d] = "idle"]
    /\ UNCHANGED <<window, curTs, inserted, evaluated, alertAt, dispatched, dlog,
                   stopReason, restarts, kills>>
    /\ UNCHANGED <<profile, published>>
    /\ UNCHANGED producerVars

--------------------------------------------------------------------------
(* consumer_smoker.py *)

SmokerAlertMessage(temp_diff, timestamp) ==
    <<"Smoker Alert! Temperature dropped by ">> \o FormatFloat(temp_diff)
        \o <<"F at ">> \o timestamp

SmokerDrop(w) == w[1] - w[Len(w)]

(* Mutant: the drop must exceed the threshold *)
SmokerPredicateStrict(w) == SmokerDrop(w) > TEMPERATURE_DROP_THRESHOLD * Tenths

SmokerPredicate(w) == SmokerDrop(w) >= TEMPERATURE_DROP_THRESHOLD * Tenths

smoker_callback_append == DecodeAndAppend("smoker")

smoker_callback_evaluate ==
    /\ dpc["smoker"] = "appended"
    /\ evaluated' = [evaluated EXCEPT !["smoker"] = @ + 1]
    /\ LET w == window["smoker"]
       IN  IF Len(w) = SMOKER_DEQUE_MAX_LENGTH
           THEN IF SmokerPredicate(w)
                THEN AlertAndEvict("smoker",
                                   SmokerAlertMessage(SmokerDrop(w), curTs["smoker"]))
                ELSE NoAlertEvict("smoker")
           ELSE NotFull("smoker")
    /\ UNCHANGED <<curTs, inserted, acked, restarts, kills>>
    /\ UNCHANGED <<profile, published, queue>>
    /\ UNCHANGED producerVars

smoker_callback_ack == Ack("smoker")

--------------------------------------------------------------------------
(* consumer_food_b.py *)

FoodBAlertMessage(timestamp) ==
    <<"Food B Stall Alert! Temperature change <= 1F at ">> \o timestamp

Spread(w) == Max(w) - Min(w)

(* Mutant: the oldest reading minus the newest, as the smoker computes it *)
FoodBPredicateFirstLast(w) ==
    w[1] - w[Len(w)] <= FOOD_B_TEMPERATURE_CHANGE_THRESHOLD * Tenths

(* Mutant: the spread must stay below the threshold *)
FoodBPredicateStrict(w) == Spread(w) < FOOD_B_TEMPERATURE_CHANGE_THRESHOLD * Tenths

FoodBPredicate(w) == Spread(w) <= FOOD_B_TEMPERATURE_CHANGE_THRESHOLD * Tenths

food_b_callback_append == DecodeAndAppend("foodB")

food_b_callback_evaluate ==
    /\ dpc["foodB"] = "appended"
    /\ evaluated' = [evaluated EXCEPT !["foodB"] = @ + 1]
    /\ LET w == window["foodB"]
       IN  IF Len(w) = FOOD_B_DEQUE_MAX_LENGTH
           THEN IF FoodBPredicate(w)
                THEN AlertAndEvict("foodB", FoodBAlertMessage(curTs["foodB"]))
                ELSE NoAlertEvict("foodB")
           ELSE NotFull("foodB")
    /\ UNCHANGED <<curTs, inserted, acked, restarts, kills>>
    /\ UNCHANGED <<profile, published, queue>>
    /\ UNCHANGED producerVars

food_b_callback_ack == Ack("foodB")

--------------------------------------------------------------------------
(* consumer_food_a.py *)

(* message.get('temperature') of an object without that member: None,   *)
(* told apart from every temperature of the model                        *)
None == -1

FoodAAlertMessage == <<"Food A Stall Alert! Temperature change <= 1F">>

FoodAPredicate(w) == Spread(w) <= FOOD_A_TEMPERATURE_CHANGE_THRESHOLD * Tenths

(* message = json.loads(body); temperature = message.get('temperature');   *)
(* temperature_readings.append(temperature)                                *)
food_a_callback_append ==
    /\ dpc["foodA"] = "idle"
    /\ queue["02-food-A"] # <<>>
    /\ LET message == JsonLoads(Delivered("foodA"))
       IN  IF message.kind # "object"
           THEN \* JSONDecodeError, or a float has no attribute 'get'
                /\ Raise("foodA", "decode")
                /\ dlog' = [dlog EXCEPT !["foodA"] = <<>>]
                /\ UNCHANGED <<window, inserted>>
           ELSE LET temperature ==
                        IF message.key = KeyTemperature THEN message.value ELSE None
                IN  /\ dlog' = [dlog EXCEPT !["foodA"] =
                                  <<Log("info", <<"Received temperature: ">>)>>]
                    /\ window' = [window EXCEPT !["foodA"] =
                                    DequeAppend(@, temperature, FOOD_A_DEQUE_MAX_LENGTH)]
                    /\ inserted' = [inserted EXCEPT !["foodA"] = Append(@, temperature)]
                    /\ dpc' = [dpc EXCEPT !["foodA"] = "appended"]
                    /\ UNCHANGED stopReason
    /\ UNCHANGED <<curTs, evaluated, alertAt, dispatched, acked, restarts, kills>>
    /\ UNCHANGED <<profile, published, queue>>
    /\ UNCHANGED producerVars

food_a_callback_evaluate ==
    /\ dpc["foodA"] = "appended"
    /\ evaluated' = [evaluated EXCEPT !["foodA"] = @ + 1]
    /\ LET w == window["foodA"]
       IN  IF Len(w) = FOOD_A_DEQUE_MAX_LENGTH
           THEN IF \E i \in 1..Len(w) : w[i] = None
                THEN \* max() cannot order None and a float: TypeError
                     /\ Raise("foodA", "evaluate")
                     /\ UNCHANGED <<window, alertAt, dlog>>
                ELSE IF FoodAPredicate(w)
                THEN \* logger.warning only: no alert is dispatched
                     /\ alertAt' = [alertAt EXCEPT !["foodA"] =
                                      @ \cup {Len(inserted["foodA"])}]
                     /\ dlog' = [dlog EXCEPT !["foodA"] =
                                   Append(@, Log("warning", FoodAAlertMessage))]
                     /\ window' = [window EXCEPT !["foodA"] = PopLeft(@)]
                     /\ dpc' = [dpc EXCEPT !["foodA"] = "evaluated"]
                     /\ UNCHANGED stopReason
                ELSE /\ window' = [window EXCEPT !["foodA"] = PopLeft(@)]
                     /\ dpc' = [dpc EXCEPT !["foodA"] = "evaluated"]
                     /\ UNCHANGED <<alertAt, dlog, stopReason>>
           ELSE /\ dpc' = [dpc EXCEPT !["foodA"] = "evaluated"]
                /\ UNCHANGED <<window, alertAt, dlog, stopReason>>
    /\ UNCHANGED <<curTs, inserted, dispatched, acked, restarts, kills>>
    /\ UNCHANGED <<profile, published, queue>>
    /\ UNCHANGED producerVars

food_a_callback_ack == Ack("foodA")

--------------------------------------------------------------------------
(* The environment of the consumers *)

(* Another publisher sends JSON bodies on 02-food-A *)
JsonPublish ==
    /\ profile \in JsonProfiles
    /\ Len(published["02-food-A"]) < MaxFoodRows
    /\ CanPublish("02-food-A")
    /\ \E t \in JsonTexts(Len(published["02-food-A"]) + 1) :
          /\ published' = [published EXCEPT !["02-food-A"] = Append(@, JsonBody(t))]
          /\ queue' = [queue EXCEPT !["02-food-A"] = Append(@, JsonBody(t))]
    /\ UNCHANGED profile
    /\ UNCHANGED producerVars
    /\ UNCHANGED detectorVars

(* The process is terminated from outside in the middle of a callback *)
Kill(d) ==
    /\ profile = "mixed"
    /\ kills < MaxKills
    /\ dpc[d] \in {"appended", "evaluated"}
    /\ kills' = kills + 1
    /\ Raise(d, "killed")
    /\ UNCHANGED <<window, curTs, inserted, evaluated, alertAt, dispatched, dlog,
                   acked, restarts>>
    /\ UNCHANGED <<profile, published, queue>>
    /\ UNCHANGED producerVars

(* Mutant: the window of the process that stopped is taken over *)
RestartKeepsWindow(d) ==
    /\ dpc[d] = "stopped"
    /\ restarts[d] < MaxRestarts
    /\ restarts' = [restarts EXCEPT ![d] = @ + 1]
    /\ dpc' = [dpc EXCEPT ![d] = "idle"]
    /\ stopReason' = [stopReason EXCEPT ![d] = "none"]
    /\ inserted' = [inserted EXCEPT ![d] = <<>>]
    /\ evaluated' = [evaluated EXCEPT ![d] = 0]
    /\ alertAt' = [alertAt EXCEPT ![d] = {}]
    /\ dlog' = [dlog EXCEPT ![d] = <<>>]
    /\ curTs' = [curTs EXCEPT ![d] = <<>>]
    /\ dispatched' = [dispatched EXCEPT ![d] = <<>>]
    /\ UNCHANGED <<window, acked, kills>>
    /\ UNCHANGED <<profile, published, queue>>
    /\ UNCHANGED producerVars

(* The script is started again: `temperature_readings = deque(maxlen=...)`, *)
(* and the broker delivers the unacknowledged messages anew.               *)
Restart(d) ==
    /\ dpc[d] = "stopped"
    /\ restarts[d] < MaxRestarts
    /\ restarts' = [restarts EXCEPT ![d] = @ + 1]
    /\ dpc' = [dpc EXCEPT ![d] = "idle"]
    /\ stopReason' = [stopReason EXCEPT ![d] = "none"]
    /\ window' = [window EXCEPT ![d] = <<>>]
    /\ inserted' = [inserted EXCEPT ![d] = <<>>]
    /\ evaluated' = [evaluated EXCEPT ![d] = 0]
    /\ alertAt' = [alertAt EXCEPT ![d] = {}]
    /\ dlog' = [dlog EXCEPT ![d] = <<>>]
    /\ curTs' = [curTs EXCEPT ![d] = <<>>]
    /\ dispatched' = [dispatched EXCEPT ![d] = <<>>]
    /\ UNCHANGED <<acked, kills>>
    /\ UNCHANGED <<profile, published, queue>>
    /\ UNCHANGED producerVars

--------------------------------------------------------------------------

Init ==
    /\ profile \in Profiles
    /\ file = <<>>
    /\ row = NoRow
    /\ ppc = IF profile = "late" THEN "setup" ELSE "next"
    /\ connection = IF profile = "late" THEN "none" ELSE "open"
    /\ sleeps = <<>>
    /\ plog = <<>>
    /\ attempts = [q \in Queues |-> <<>>]
    /\ published = [q \in Queues |-> <<>>]
    /\ queue = [q \in Queues |-> <<>>]
    /\ dpc = [d \in Detectors |-> "idle"]
    /\ window = [d \in Detectors |-> <<>>]
    /\ curTs = [d \in Detectors |-> <<>>]
    /\ inserted = [d \in Detectors |-> <<>>]
    /\ evaluated = [d \in Detectors |-> 0]
    /\ alertAt = [d \in Detectors |-> {}]
    /\ dispatched = [d \in Detectors |-> <<>>]
    /\ dlog = [d \in Detectors |-> <<>>]
    /\ acked = [d \in Detectors |-> <<>>]
    /\ stopReason = [d \in Detectors |-> "none"]
    /\ restarts = [d \in Detectors |-> 0]
    /\ kills = 0

Next ==
    \/ connect_and_setup_queues
    \/ ReadRow
    \/ SendSmoker
    \/ SendFoodA
    \/ SendFoodB
    \/ Sleep
    \/ EndOfFile
    \/ FileNotFound
    \/ UnexpectedError
    \/ JsonPublish
    \/ smoker_callback_append
    \/ smoker_callback_evaluate
    \/ smoker_callback_ack
    \/ food_a_callback_append
    \/ food_a_callback_evaluate
    \/ food_a_callback_ack
    \/ food_b_callback_append
    \/ food_b_callback_evaluate
    \/ food_b_callback_ack
    \/ \E d \in Detectors : Kill(d)
    \/ \E d \in Detectors : Restart(d)

Spec == Init /\ [][Next]_vars

--------------------------------------------------------------------------
(* Properties *)

(* The k-th reading the smoker process inserted closes a drop: the reading *)
(* four places before it is at least 15 degrees above it.                  *)
DropAt(k) ==
    LET r == inserted["smoker"]
    IN  k >= 5 /\ r[k - 4] - r[k] >= 15 * Tenths

(* C1: the smoker detector raises an alert on its k-th insertion if and    *)
(* only if k >= 5 and readings[k-4] - readings[k] >= 15; never for k < 5.  *)
C1_SmokerAlertIff ==
    /\ alertAt["smoker"] \subseteq 1..evaluated["smoker"]
    /\ \A k \in 1..evaluated["smoker"] : (k \in alertAt["smoker"]) <=> DropAt(k)

(* The window has slid: no alert on the 5th insertion, one on the 6th, for *)
(* a drop of exactly 15 degrees between the 2nd and the 6th reading.       *)
C1_Witness ==
    /\ evaluated["smoker"] = 6
    /\ 5 \notin alertAt["smoker"]
    /\ 6 \in alertAt["smoker"]
    /\ inserted["smoker"][2] - inserted["smoker"][6] = 15 * Tenths

(* The 20 readings up to the k-th one the process `d` inserted lie within  *)
(* one degree of each other.                                               *)
StallAt(d, k) ==
    LET r == inserted[d]
    IN  k >= 20 /\ \A i, j \in (k - 19)..k : r[i] - r[j] <= 1 * Tenths

C3_FoodAEndToEnd ==
    profile \notin JsonProfiles =>
        /\ stopReason["foodA"] # "decode"
        /\ Len(acked["foodA"]) <= Len(inserted["foodA"]) + restarts["foodA"]
        /\ \A k \in 1..evaluated["foodA"] :
              (k \in alertAt["foodA"]) <=> StallAt("foodA", k)

(* C4: a dispatch that cannot connect to the SMTP host, or whose login is  *)
(* refused, never stops the Smoker or the Food B detector.                 *)
C4_DispatchFailureIsolated ==
    \A d \in {"smoker", "foodB"} :
        stopReason[d] \notin {"connect_error", "auth_error"}

Capacity(d) == IF d = "smoker" THEN 5 ELSE 20

MinOf(a, b) == IF a <= b THEN a ELSE b

(* C5 as claimed: once the k-th reading is processed the window holds      *)
(* min(k, capacity) readings.                                              *)
C5_WindowLengthAsClaimed ==
    \A d \in Detectors :
        dpc[d] = "idle" =>
            Len(window[d]) = MinOf(Len(inserted[d]), Capacity(d))

(* C5, amended: once the k-th reading is processed the window holds        *)
(* min(k, capacity - 1) readings; it holds min(k, capacity) only between   *)
(* the append and the eviction of one callback.                            *)
C5_WindowLength ==
    \A d \in Detectors :
        /\ dpc[d] \in {"evaluated", "idle"} =>
              Len(window[d]) = MinOf(Len(inserted[d]), Capacity(d) - 1)
        /\ dpc[d] = "appended" =>
              Len(window[d]) = MinOf(Len(inserted[d]), Capacity(d))

(* The smoker has processed six readings and its window holds four *)
C5_Witness ==
    /\ dpc["smoker"] = "idle"
    /\ Len(inserted["smoker"]) = 6
    /\ Len(acked["smoker"]) = 6
    /\ Len(window["smoker"]) = 4

(* The predicate of detector d holds at its k-th insertion *)
Match(d, k) == IF d = "smoker" THEN DropAt(k) ELSE StallAt(d, k)

(* The calls of create_and_send_text_alert made for the k-th insertion *)
CallsFor(d, k) == {i \in 1..Len(dispatched[d]) : dispatched[d][i].k = k}

(* C6: in each of the three detectors every predicate match hands exactly  *)
(* one alert to create_and_send_text_alert, whose text ends with the       *)
(* timestamp of the triggering message, still unacknowledged at that time; *)
(* no alert is handed over when the predicate does not hold.               *)
C6_OneDispatchPerMatch ==
    \A d \in Detectors : \A k \in 1..evaluated[d] :
        IF Match(d, k)
        THEN /\ Cardinality(CallsFor(d, k)) = 1
             /\ \A i \in CallsFor(d, k) :
                   IsSuffix(Split(dispatched[d][i].pending)[1], dispatched[d][i].text)
        ELSE CallsFor(d, k) = {}

(* The temperature detector d reads from a body *)
TempOf(d, body) ==
    IF d = "foodA" THEN JsonLoads(body).value ELSE FloatVal(Split(body)[2])

C7_Conserved ==
    \A d \in Detectors :
        /\ acked[d] \o queue[QUEUE_NAME(d)] = published[QUEUE_NAME(d)]
        /\ dpc[d] \in {"appended", "evaluated"} => queue[QUEUE_NAME(d)] # <<>>

C7_AckStep ==
    \A d \in Detectors :
        LET q == QUEUE_NAME(d)
        IN  /\ acked'[d] # acked[d] =>
                  /\ dpc[d] = "evaluated"
                  /\ inserted[d] # <<>>
                  /\ evaluated[d] = Len(inserted[d])
                  /\ inserted[d][Len(inserted[d])] = TempOf(d, Head(queue[q]))
                  /\ acked'[d] = Append(acked[d], Head(queue[q]))
                  /\ queue'[q] = Tail(queue[q])
            /\ (dpc[d] # "stopped" /\ dpc'[d] = "stopped") =>
                  /\ acked'[d] = acked[d]
                  /\ queue'[q] = queue[q]
            /\ (dpc[d] = "stopped" /\ dpc'[d] # "stopped") =>
                  /\ queue'[q] = queue[q]
                  /\ window'[d] = <<>>

(* C7: a message is acknowledged only after its temperature was appended   *)
(* and the evaluate/evict step has run, and exactly once: the acknowledged *)
(* messages followed by the queued ones are the published ones; a detector *)
(* that stops before the ack leaves its message in the queue, from where   *)
(* it is delivered again to the restarted process.                         *)
C7_AckOrdering == []C7_Conserved /\ [][C7_AckStep]_vars

(* The smoker was terminated in mid-callback, restarted, and has then      *)
(* acknowledged the message delivered to it again.                         *)
C7_Witness ==
    /\ kills = 1
    /\ restarts["smoker"] = 1
    /\ dpc["smoker"] = "idle"
    /\ acked["smoker"] # <<>>
    /\ acked["smoker"] = published["01-smoker"]

Columns == <<"Channel1", "Channel2", "Channel3">>

(* The first column of row r that float() rejects, 4 when there is none *)
FirstBad(r) ==
    LET bad == {c \in 1..3 : r[Columns[c]] # <<>> /\ ~FloatOk(r[Columns[c]])}
    IN  IF bad = {} THEN 4 ELSE CHOOSE c \in bad : \A b \in bad : c <= b

(* How many columns of the current row the producer has gone through *)
ColumnsDone ==
    CASE ppc = "smoker" -> 0
      [] ppc = "foodA" -> 1
      [] ppc = "foodB" -> 2
      [] ppc = "exit1" -> FirstBad(row) - 1
      [] OTHER -> 3

(* The bodies of the readings of column c in the first n rows, in row      *)
(* order: one per row whose field is present and has been gone through.    *)
RECURSIVE ReadingsOf(_, _)
ReadingsOf(c, n) ==
    IF n = 0 THEN <<>>
    ELSE LET r == file[n]
             str == r[Columns[c]]
         IN  IF str # <<>> /\ (n < Len(file) \/ c <= ColumnsDone)
             THEN Append(ReadingsOf(c, n - 1),
                         r["Time (UTC)"] \o <<",", " ">> \o FormatFloat(FloatVal(str)))
             ELSE ReadingsOf(c, n - 1)

PublishErrors(q) == {i \in 1..Len(plog) : plog[i].level = "error" /\ plog[i].queue = q}

NoPublishFailed == \A q \in Queues : PublishErrors(q) = {}

(* C8 as stated: once the producer has ended without a failed publish,     *)
(* every row read whose field for a channel is non-empty has its message   *)
(* on that channel.                                                        *)
C8_EveryNonEmptyField ==
    (profile \notin JsonProfiles /\ NoPublishFailed /\ ppc \in {"closed", "exit1"}) =>
        \A c \in 1..3 : \A n \in 1..Len(file) :
            file[n][Columns[c]] # <<>> =>
                \E i \in 1..Len(published[QUEUE_NAMES[c]]) :
                    IsPrefix(file[n]["Time (UTC)"] \o <<",", " ">>,
                             published[QUEUE_NAMES[c]][i])

(* C8: when no publish fails, the messages published on each channel are   *)
(* exactly, in row order, the (timestamp, temperature) readings of the     *)
(* rows gone through whose field for that channel is present: each reading *)
(* on its own channel, none twice. A field that is not numeric ends the    *)
(* run: it and the fields after it are not gone through.                   *)
C8_RoutingAndOrder ==
    (profile \notin JsonProfiles /\ NoPublishFailed) =>
        \A c \in 1..3 : published[QUEUE_NAMES[c]] = ReadingsOf(c, Len(file))

(* A whole file was published whose first row has no Food A value *)
C8_Witness ==
    /\ profile = "foodA"
    /\ ppc = "closed"
    /\ NoPublishFailed
    /\ Len(file) >= 20
    /\ file[1]["Channel2"] = <<>>
    /\ Len(published["02-food-A"]) = Len(file) - 1

PcOfColumn == <<"smoker", "foodA", "foodB">>
PcAfterColumn == <<"foodA", "foodB", "sleep">>

C9_SkipStep ==
    \A c \in 1..3 :
        (ppc = PcOfColumn[c] /\ row[Columns[c]] = <<>> /\ ppc' # ppc) =>
            /\ ppc' = PcAfterColumn[c]
            /\ attempts' = attempts
            /\ published' = published
            /\ queue' = queue
            /\ plog' = plog
            /\ window' = window

C9_RowDone ==
    /\ ppc = "sleep" =>
          \A c \in 1..3 :
              LET sent == {i \in 1..Len(attempts[QUEUE_NAMES[c]]) :
                             IsPrefix(row["Time (UTC)"] \o <<",", " ">>,
                                      attempts[QUEUE_NAMES[c]][i])}
              IN  Cardinality(sent) = IF row[Columns[c]] = <<>> THEN 0 ELSE 1
    /\ \A d \in Detectors : Len(inserted[d]) <= Len(published[QUEUE_NAME(d)])

(* C9: a row whose field for a channel is empty produces no message on     *)
(* that channel and is no error; its other fields are published; the       *)
(* detector of the channel, which receives nothing, keeps its window.      *)
C9_MissingValue == []C9_RowDone /\ [][C9_SkipStep]_vars

(* A row without a Food B value: its smoker reading was published and      *)
(* inserted, nothing went to 03-food-B and the Food B window is empty.     *)
C9_Witness ==
    /\ profile = "mixed"
    /\ ppc = "sleep"
    /\ row["Channel3"] = <<>>
    /\ Len(published["01-smoker"]) = 1
    /\ Len(published["02-food-A"]) = 1
    /\ published["03-food-B"] = <<>>
    /\ Len(inserted["smoker"]) = 1
    /\ window["foodB"] = <<>>

Failed(q) == {plog[i].body : i \in PublishErrors(q)}

IsAccepted(q, body) == body \notin Failed(q)

(* C10: every reading gone through is handed to basic_publish exactly      *)
(* once, in order, whatever failed before it; the readings whose publish   *)
(* raised are logged and are the only ones missing from the channel; the   *)
(* producer exits only on a field that is not numeric.                     *)
C10_PublishFailure ==
    profile \notin JsonProfiles =>
        /\ \A c \in 1..3 :
              LET q == QUEUE_NAMES[c]
              IN  /\ attempts[q] = ReadingsOf(c, Len(file))
                  /\ published[q] = SelectSeq(attempts[q], LAMBDA b : IsAccepted(q, b))
                  /\ Cardinality(PublishErrors(q)) = Len(attempts[q]) - Len(published[q])
        /\ ppc = "exit1" => FirstBad(row) <= 3

(* The publish of the first reading raised; the file was then read to its  *)
(* end and every later reading is on the channel.                          *)
C10_Witness ==
    /\ profile = "foodA"
    /\ ppc = "closed"
    /\ Len(file) >= 20
    /\ file[1]["Channel2"] # <<>>
    /\ Failed("02-food-A") = {attempts["02-food-A"][1]}
    /\ Len(published["02-food-A"]) = Len(attempts["02-food-A"]) - 1
    /\ Len(published["02-food-A"]) >= 19

(* The attempts on the channel of column c that carry the timestamp of r *)
AttemptsOfRow(c, r) ==
    {i \in 1..Len(attempts[QUEUE_NAMES[c]]) :
        IsPrefix(r["Time (UTC)"] \o <<",", " ">>, attempts[QUEUE_NAMES[c]][i])}

C11_Aborted ==
    ppc = "exit1" =>
        /\ FirstBad(row) <= 3
        /\ plog # <<>>
        /\ plog[Len(plog)] = [level |-> "error", queue |-> "csv",
                              body |-> row[Columns[FirstBad(row)]]]
        /\ \A c \in FirstBad(row)..3 : AttemptsOfRow(c, row) = {}
        /\ Len(sleeps) = Len(file) - 1

C11_AbortStep ==
    /\ \A c \in 1..3 :
          (/\ ppc = PcOfColumn[c]
           /\ row[Columns[c]] # <<>>
           /\ ~FloatOk(row[Columns[c]])
           /\ ppc' # ppc) => ppc' = "exit1"
    /\ ppc = "exit1" =>
          /\ ppc' = "exit1"
          /\ file' = file
          /\ attempts' = attempts
          /\ published' = published
          /\ plog' = plog

(* C11: a present field that is not numeric makes the producer log the     *)
(* error and exit with status 1; neither a later column of that row nor a  *)
(* later row is handed to basic_publish afterwards.                        *)
C11_MalformedAborts == []C11_Aborted /\ [][C11_AbortStep]_vars

(* The run was aborted on the Food A field of a row whose smoker reading   *)
(* had been sent and whose Food B reading was never sent.                  *)
C11_Witness ==
    /\ ppc = "exit1"
    /\ row["Channel1"] # <<>>
    /\ row["Channel2"] = NotNumeric
    /\ row["Channel3"] = FoodBase
    /\ Len(attempts["01-smoker"]) = 1
    /\ attempts["03-food-B"] = <<>>

Rising(r) == \A i, j \in 1..Len(r) : i < j => r[i] < r[j]
Flat(r) == \A i, j \in 1..Len(r) : r[i] = r[j]

(* C12 as stated: no detector alerts on a strictly increasing or on a flat *)
(* series.                                                                 *)
C12_NeverAlerts ==
    \A d \in Detectors :
        (Rising(inserted[d]) \/ Flat(inserted[d])) => alertAt[d] = {}

(* C12: the smoker never alerts on a strictly increasing or a flat series; *)
(* a food detector never alerts on a strictly increasing series that gains *)
(* more than one degree over every 20 consecutive readings, and alerts on  *)
(* a flat series at every insertion from the 20th on.                      *)
C12_NonTriggering ==
    /\ (Rising(inserted["smoker"]) \/ Flat(inserted["smoker"]))
          => alertAt["smoker"] = {}
    /\ \A d \in {"foodA", "foodB"} :
          LET r == inserted[d]
          IN  /\ (/\ Rising(r)
                  /\ \A k \in 20..Len(r) : r[k] - r[k - 19] > 1 * Tenths)
                    => alertAt[d] = {}
              /\ Flat(r) => alertAt[d] = 20..evaluated[d]

(* Smoker and Food B have each gone through 20 readings of an increasing   *)
(* series, with full windows evaluated, and raised no alert.               *)
C12_Witness ==
    /\ profile = "rising"
    /\ evaluated["smoker"] >= 20
    /\ evaluated["foodB"] >= 20
    /\ Rising(inserted["smoker"])
    /\ Rising(inserted["foodB"])
    /\ alertAt["smoker"] = {}
    /\ alertAt["foodB"] = {}

(* C13: the queue setup of a producer started after the detectors never    *)
(* makes a running detector stop receiving.                                *)
C13_SetupKeepsDetectors == \A d \in Detectors : stopReason[d] # "cancelled"

(* C14: for every call of the dispatcher made by the callback last run, of *)
(* the smoker and of Food B, the log holds the warning with the alert text *)
(* and, next after it, an entry that records the outcome of the dispatch.  *)
C14_AttemptLogged ==
    \A d \in {"smoker", "foodB"} : \A i \in 1..Len(dispatched[d]) :
        (dispatched[d][i].k = Len(inserted[d]) /\ dpc[d] # "appended") =>
            \E j \in 1..(Len(dlog[d]) - 1) :
                /\ dlog[d][j] = [level |-> "warning", text |-> dispatched[d][i].text]
                /\ dlog[d][j + 1].level \in {"info", "error"}

C15_SleepCount ==
    /\ \A i \in 1..Len(sleeps) : sleeps[i] = DELAY
    /\ Len(sleeps) = IF ppc \in {"smoker", "foodA", "foodB", "sleep", "exit1"}
                     THEN Len(file) - 1
                     ELSE Len(file)

C15_SleepStep ==
    /\ attempts' # attempts => (sleeps' = sleeps /\ Len(sleeps) = Len(file) - 1)
    /\ sleeps' # sleeps =>
          /\ ppc = "sleep"
          /\ ppc' = "next"
          /\ attempts' = attempts
          /\ sleeps' = Append(sleeps, DELAY)

(* C15: every publish of the n-th row is made after exactly n - 1          *)
(* suspensions, each of DELAY seconds: one suspension lies between the     *)
(* publishes of two successive rows and none between those of one row.     *)
C15_Pacing == []C15_SleepCount /\ [][C15_SleepStep]_vars

(* Two rows of two readings each have been sent with one suspension made *)
C15_Witness ==
    /\ profile = "rising"
    /\ Len(file) = 2
    /\ ppc = "sleep"
    /\ sleeps = <<DELAY>>
    /\ Len(attempts["01-smoker"]) = 2
    /\ Len(attempts["03-food-B"]) = 2

(* The predicate of detector d on a full window w *)
PredicateOn(d, w) ==
    IF d = "smoker" THEN w[1] - w[Len(w)] >= 15 * Tenths
    ELSE \A i, j \in 1..Len(w) : w[i] - w[j] <= 1 * Tenths

C16_Bounded ==
    \A d \in Detectors :
        LET n == Len(inserted[d])
        IN  /\ Len(window[d]) <= Capacity(d)
            /\ dpc[d] \in {"idle", "evaluated"} => Len(window[d]) <= Capacity(d) - 1
            /\ Len(window[d]) <= n
            /\ window[d] = SubSeq(inserted[d], n - Len(window[d]) + 1, n)

C16_EvictStep ==
    \A d \in Detectors :
        /\ Len(inserted'[d]) = Len(inserted[d]) + 1 =>
              /\ Len(window[d]) < Capacity(d)
              /\ window'[d] = Append(window[d], inserted'[d][Len(inserted'[d])])
        /\ evaluated'[d] = evaluated[d] + 1 =>
              IF Len(window[d]) = Capacity(d)
              THEN /\ (Len(inserted[d]) \in alertAt'[d]) <=> PredicateOn(d, window[d])
                   /\ \/ window'[d] = Tail(window[d])
                      \/ dpc'[d] = "stopped" /\ window'[d] = window[d]
              ELSE /\ window'[d] = window[d]
                   /\ alertAt'[d] = alertAt[d]

(* C16: a window never holds more than its capacity and, between messages, *)
(* never more than capacity - 1; it holds the most recent readings in      *)
(* receipt order; an append never finds the deque full; an evaluation on a *)
(* full window applies the predicate to it and then removes the oldest     *)
(* entry alone, unless the dispatch raises and ends the process.           *)
C16_WindowBound == []C16_Bounded /\ [][C16_EvictStep]_vars

(* Food B after its 21st reading: the window was full twice and holds the  *)
(* 19 most recent readings.                                                *)
C16_Witness ==
    /\ dpc["foodB"] = "evaluated"
    /\ Len(inserted["foodB"]) = 21
    /\ evaluated["foodB"] = 21
    /\ window["foodB"] = SubSeq(inserted["foodB"], 3, 21)

C17_Fresh ==
    \A d \in Detectors :
        restarts[d] >= 1 =>
            /\ \A k \in alertAt[d] : k >= Capacity(d)
            /\ \A i \in 1..Len(dispatched[d]) : dispatched[d][i].k >= Capacity(d)
            /\ Len(inserted[d]) < Capacity(d) =>
                  /\ window[d] = inserted[d]
                  /\ alertAt[d] = {}
                  /\ dispatched[d] = <<>>

C17_RestartStep ==
    \A d \in Detectors :
        /\ (dpc[d] = "stopped" /\ dpc'[d] # "stopped") =>
              /\ window'[d] = <<>>
              /\ restarts'[d] = restarts[d] + 1
              /\ queue' = queue
        /\ (restarts[d] >= 1 /\ inserted[d] = <<>> /\ inserted'[d] # <<>>) =>
              window'[d] = <<TempOf(d, Head(queue[QUEUE_NAME(d)]))>>

(* C17: a restarted detector starts with an empty window; the first        *)
(* reading it holds is that of the oldest unacknowledged message; until    *)
(* the new process has received capacity readings its window holds all of  *)
(* them (nothing was evaluated or evicted) and it has raised no alert.     *)
C17_RestartEmptyWindow == []C17_Fresh /\ [][C17_RestartStep]_vars

(* The smoker stopped on its 5th reading and was restarted; the new        *)
(* process has taken the redelivered 5th and the 6th reading and raised    *)
(* no alert, although readings 2 and 6 are 15 degrees apart.               *)
C17_Witness ==
    /\ profile = "smoker"
    /\ restarts["smoker"] = 1
    /\ dpc["smoker"] = "idle"
    /\ Len(acked["smoker"]) = 6
    /\ Len(inserted["smoker"]) = 2
    /\ file[2]["Channel1"] = <<"2", "2", "5">>
    /\ file[6]["Channel1"] = <<"2", "1", "0">>
    /\ alertAt["smoker"] = {}

Exited == ppc \in {"closed", "exit1", "nofile", "failed"}

C18_Closed ==
    /\ Exited <=> connection = "closed"
    /\ ppc = "setup" <=> connection = "none"

C18_AfterClose ==
    connection = "closed" =>
        /\ connection' = "closed"
        /\ ppc' = ppc
        /\ attempts' = attempts
        /\ published' = published

(* C18: the producer's connection is closed exactly when main has ended,   *)
(* whether the file was read to its end, was missing, held a field that is *)
(* not numeric or could not be read; nothing is handed to basic_publish    *)
(* once the connection is closed.                                          *)
C18_ConnectionClosed == []C18_Closed /\ [][C18_AfterClose]_vars

(* The producer ended on an unexpected error after it had published a     *)
(* row, and its connection is closed.                                      *)
C18_Witness ==
    /\ ppc = "failed"
    /\ connection = "closed"
    /\ Len(file) = 1
    /\ published["01-smoker"] # <<>>

(* The stop reasons that are exceptions raised by the callback *)
RaiseReasons == {"decode", "evaluate", "disconnected", "connect_error", "no_secrets"}

C19_Held ==
    \A d \in Detectors :
        LET q == QUEUE_NAME(d)
        IN  (dpc[d] = "stopped" /\ stopReason[d] \in RaiseReasons) =>
                /\ queue[q] # <<>>
                /\ \A i \in 1..Len(acked[d]) : acked[d][i] # Head(queue[q])
                /\ Head(queue[q]) = published[q][Len(acked[d]) + 1]

C19_RaiseStep ==
    \A d \in Detectors :
        LET q == QUEUE_NAME(d)
        IN  /\ (/\ dpc[d] # "stopped"
                /\ dpc'[d] = "stopped"
                /\ stopReason'[d] \in RaiseReasons) =>
                    /\ queue[q] # <<>>
                    /\ queue'[q] = queue[q]
                    /\ acked'[d] = acked[d]
            /\ Len(acked'[d]) > Len(acked[d]) =>
                    /\ stopReason[d] = "none"
                    /\ window[d] # <<>>
                    /\ inserted[d] # <<>>
                    /\ inserted[d][Len(inserted[d])] = TempOf(d, acked'[d][Len(acked'[d])])
            /\ (restarts[d] >= 1 /\ dpc[d] = "idle" /\ dpc'[d] # "idle"
                   /\ inserted[d] = <<>>) =>
                    /\ queue[q] # <<>>
                    /\ Head(queue[q]) = published[q][Len(acked[d]) + 1]
                    /\ IF dpc'[d] = "stopped"
                       THEN stopReason'[d] = "decode"
                       ELSE inserted'[d] = <<TempOf(d, Head(queue[q]))>>

(* C19: a message whose handling raises is not acknowledged: it stays the  *)
(* oldest message of its queue, and is the first one a restarted detector  *)
(* handles; every acknowledged message had its temperature appended by the *)
(* process that acknowledged it.                                           *)
C19_RaisedNotAcked == []C19_Held /\ [][C19_RaiseStep]_vars

(* Food A failed to decode its first message, was restarted, got the same  *)
(* message first and failed on it again; nothing was acknowledged.         *)
C19_Witness ==
    /\ restarts["foodA"] = 1
    /\ dpc["foodA"] = "stopped"
    /\ stopReason["foodA"] = "decode"
    /\ acked["foodA"] = <<>>
    /\ Len(queue["02-food-A"]) >= 2
    /\ Head(queue["02-food-A"]) = published["02-food-A"][1]

==========================================================================
